---- MODULE Spec2Model ----
(***************************************************************************)
(* indent-complexity: indentation-depth extraction and statistics.         *)
(*                                                                         *)
(* Text is a sequence of one-character strings.  JavaScript numbers that   *)
(* are not integers (score, mean, variance, median, thresholds) are exact  *)
(* rationals <<n, d>> in lowest terms, d > 0; IEEE-754 rounding is not     *)
(* modelled.  The only state that outlives a call is the lastIndex of the  *)
(* caller's RegExp object.                                                 *)
(***************************************************************************)
EXTENDS Integers, Sequences, FiniteSets, TLC

VARIABLES
    mode,          \* which entry point the caller uses
    content,       \* the text argument (content or diff)
    options,       \* the options argument
    detected,      \* what detect-indent returns for this text
    detectArg,     \* the text handed to detect-indent by the latest call
    lastIndex,     \* lastIndex of the caller's commentPattern object
    lines,         \* ParsedLine[] of the latest parse
    results,       \* results returned so far, oldest first
    score,         \* argument of a direct assessComplexity call
    thresholds,    \* argument of a direct assessComplexity call
    assessment     \* what that call returned

vars == <<mode, content, options, detected, detectArg, lastIndex, lines, results,
          score, thresholds, assessment>>

-----------------------------------------------------------------------------
(* Bounds *)

MaxLines == 2
MaxAmount == 2
MaxCalls == 2
MaxDepths == 4
MaxDepth == 3
MaxScoreTenths == 110

-----------------------------------------------------------------------------
(* Numbers *)

RECURSIVE GCD(_, _)
GCD(a, b) == IF b = 0 THEN a ELSE GCD(b, a % b)

Rat(n, d) == LET g == GCD(n, d) IN <<n \div g, d \div g>>
Num(n) == <<n, 1>>
Zero == Num(0)
RAdd(a, b) == Rat(a[1] * b[2] + b[1] * a[2], a[2] * b[2])
RMul(a, b) == Rat(a[1] * b[1], a[2] * b[2])
RDivInt(a, k) == Rat(a[1], a[2] * k)
RGe(a, b) == a[1] * b[2] >= b[1] * a[2]
RLt(a, b) == ~RGe(a, b)

\* Math.sqrt of a non-negative rational, kept as its radicand (0 is Sqrt(Zero))
Sqrt(q) == [radicand |-> q]

\* Number.prototype.toFixed(1), in tenths
toFixed1(q) == (20 * q[1] + q[2]) \div (2 * q[2])

RECURSIVE SumSeq(_)
SumSeq(s) == IF s = <<>> THEN 0 ELSE Head(s) + SumSeq(Tail(s))

RECURSIVE RSumSeq(_)
RSumSeq(s) == IF s = <<>> THEN Zero ELSE RAdd(Head(s), RSumSeq(Tail(s)))

RECURSIVE Insert(_, _)
Insert(x, s) ==
    IF s = <<>> THEN <<x>>
    ELSE IF x - Head(s) < 0 THEN <<x>> \o s
    ELSE <<Head(s)>> \o Insert(x, Tail(s))

RECURSIVE SortNumeric(_)
SortNumeric(s) == IF s = <<>> THEN <<>> ELSE Insert(Head(s), SortNumeric(Tail(s)))

-----------------------------------------------------------------------------
(* statistics.ts *)

ZeroMoments ==
    [score |-> Zero, sum |-> 0, mean |-> Zero, variance |-> Zero,
     stdDev |-> Sqrt(Zero), median |-> Zero, max |-> 0]

\* score taken to be the variance
computeStatistics_variance(depths) ==
    IF Len(depths) = 0 THEN ZeroMoments
    ELSE
    LET n == Len(depths)
        sum == SumSeq(depths)
        squaredDiffs == [i \in 1..n |->
                            Rat((depths[i] * n - sum) * (depths[i] * n - sum), n * n)]
        variance == RDivInt(RSumSeq(squaredDiffs), n)
        sorted == SortNumeric(depths)
    IN  [score |-> variance, sum |-> sum, mean |-> Rat(sum, n), variance |-> variance,
         stdDev |-> Sqrt(variance),
         median |-> IF n % 2 = 0
                    THEN Rat(sorted[n \div 2] + sorted[n \div 2 + 1], 2)
                    ELSE Num(sorted[n \div 2 + 1]),
         max |-> sorted[n]]

\* sample variance: the squared deviations divided by count - 1
computeStatistics_sample(depths) ==
    IF Len(depths) = 0 THEN ZeroMoments
    ELSE
    LET n == Len(depths)
        sum == SumSeq(depths)
        squaredDiffs == [i \in 1..n |->
                            Rat((depths[i] * n - sum) * (depths[i] * n - sum), n * n)]
        variance == IF n = 1 THEN Zero ELSE RDivInt(RSumSeq(squaredDiffs), n - 1)
        sorted == SortNumeric(depths)
    IN  [score |-> Rat(SumSeq([i \in 1..n |-> depths[i] * depths[i]]), n),
         sum |-> sum, mean |-> Rat(sum, n), variance |-> variance,
         stdDev |-> Sqrt(variance),
         median |-> IF n % 2 = 0
                    THEN Rat(sorted[n \div 2] + sorted[n \div 2 + 1], 2)
                    ELSE Num(sorted[n \div 2 + 1]),
         max |-> sorted[n]]

computeStatistics(depths) ==
    IF Len(depths) = 0 THEN ZeroMoments
    ELSE
    LET n == Len(depths)
        sum == SumSeq(depths)
        mean == Rat(sum, n)
        squaredDiffs == [i \in 1..n |->
                            Rat((depths[i] * n - sum) * (depths[i] * n - sum), n * n)]
        variance == RDivInt(RSumSeq(squaredDiffs), n)
        stdDev == Sqrt(variance)
        sorted == SortNumeric(depths)
        mid == n \div 2
        median == IF n % 2 = 0
                  THEN Rat(sorted[mid] + sorted[mid + 1], 2)
                  ELSE Num(sorted[mid + 1])
        max == sorted[n]
        sumSquaredDepths == SumSeq([i \in 1..n |-> depths[i] * depths[i]])
        sc == Rat(sumSquaredDepths, n)
    IN  [score |-> sc, sum |-> sum, mean |-> mean, variance |-> variance,
         stdDev |-> stdDev, median |-> median, max |-> max]

\* histogram[depth] = 1 instead of adding 1 to the count so far
buildHistogram_presence(depths) ==
    [d \in {depths[i] : i \in 1..Len(depths)} |-> 1]

buildHistogram(depths) ==
    [d \in {depths[i] : i \in 1..Len(depths)} |->
        Cardinality({i \in 1..Len(depths) : depths[i] = d})]

-----------------------------------------------------------------------------
(* constants.ts, assessment.ts *)

DEFAULT_THRESHOLDS == [medium |-> Num(4), high |-> Num(10)]

\* the spread written the other way round: { ...userThresholds, ...DEFAULT_THRESHOLDS }
resolveThresholds_defaultsLast(userThresholds) == DEFAULT_THRESHOLDS

\* userThresholds: [given |-> BOOLEAN, fields |-> partial record]
resolveThresholds(userThresholds) ==
    IF ~userThresholds.given THEN DEFAULT_THRESHOLDS
    ELSE [f \in {"medium", "high"} |->
            IF f \in DOMAIN userThresholds.fields
            THEN userThresholds.fields[f]
            ELSE DEFAULT_THRESHOLDS[f]]

\* the medium threshold tested before the high one
assessComplexity_mediumFirst(sc, th) ==
    IF RGe(sc, th.medium)
    THEN [level |-> "medium",
          reason |-> <<"Score", toFixed1(sc), "exceeds medium threshold", th.medium>>]
    ELSE IF RGe(sc, th.high)
    THEN [level |-> "high",
          reason |-> <<"Score", toFixed1(sc), "exceeds high threshold", th.high>>]
    ELSE [level |-> "low",
          reason |-> <<"Score indicates simple, low-nesting code">>]

\* strict comparisons: score > threshold
assessComplexity_strict(sc, th) ==
    IF ~RGe(th.high, sc)
    THEN [level |-> "high",
          reason |-> <<"Score", toFixed1(sc), "exceeds high threshold", th.high>>]
    ELSE IF ~RGe(th.medium, sc)
    THEN [level |-> "medium",
          reason |-> <<"Score", toFixed1(sc), "exceeds medium threshold", th.medium>>]
    ELSE [level |-> "low",
          reason |-> <<"Score indicates simple, low-nesting code">>]

assessComplexity(sc, th) ==
    IF RGe(sc, th.high)
    THEN [level |-> "high",
          reason |-> <<"Score", toFixed1(sc), "exceeds high threshold", th.high>>]
    ELSE IF RGe(sc, th.medium)
    THEN [level |-> "medium",
          reason |-> <<"Score", toFixed1(sc), "exceeds medium threshold", th.medium>>]
    ELSE [level |-> "low",
          reason |-> <<"Score indicates simple, low-nesting code">>]

-----------------------------------------------------------------------------
(* result-builder.ts *)

\* the early return taken on !verbose alone
buildResult_verboseOnly(ls, opts) ==
    LET depths == [i \in 1..Len(ls) |-> ls[i].depth]
        stats == computeStatistics(depths)
        a == assessComplexity(stats.score, resolveThresholds(opts.userThresholds))
        result == [score |-> stats.score, level |-> a.level, reason |-> a.reason]
        verboseResult ==
            [score |-> result.score, level |-> result.level, reason |-> result.reason,
             lineCount |-> Len(ls), max |-> stats.max, variance |-> stats.variance,
             mean |-> stats.mean, stdDev |-> stats.stdDev, median |-> stats.median,
             sum |-> stats.sum, depthHistogram |-> buildHistogram(depths)]
        lineDetails == [i \in 1..Len(ls) |->
                           [line |-> ls[i].lineNumber, depth |-> ls[i].depth,
                            content |-> ls[i].content]]
    IN  IF ~opts.verbose THEN result
        ELSE IF opts.includeLines
        THEN [f \in DOMAIN verboseResult \cup {"lines"} |->
                IF f = "lines" THEN lineDetails ELSE verboseResult[f]]
        ELSE verboseResult

buildResult(ls, opts) ==
    LET depths == [i \in 1..Len(ls) |-> ls[i].depth]
        stats == computeStatistics(depths)
        th == resolveThresholds(opts.userThresholds)
        a == assessComplexity(stats.score, th)
        result == [score |-> stats.score, level |-> a.level, reason |-> a.reason]
        verboseResult ==
            [score |-> result.score, level |-> result.level, reason |-> result.reason,
             lineCount |-> Len(ls), max |-> stats.max, variance |-> stats.variance,
             mean |-> stats.mean, stdDev |-> stats.stdDev, median |-> stats.median,
             sum |-> stats.sum, depthHistogram |-> buildHistogram(depths)]
        lineDetails == [i \in 1..Len(ls) |->
                           [line |-> ls[i].lineNumber, depth |-> ls[i].depth,
                            content |-> ls[i].content]]
    IN  IF ~opts.verbose /\ ~opts.includeLines THEN result
        ELSE IF opts.includeLines
        THEN [f \in DOMAIN verboseResult \cup {"lines"} |->
                IF f = "lines" THEN lineDetails ELSE verboseResult[f]]
        ELSE verboseResult

-----------------------------------------------------------------------------
(* Strings *)

\* the white-space characters of the model's alphabet (String.prototype.trim, \s)
WhiteSpace == {" ", "\t"}

Min(S) == CHOOSE x \in S : \A y \in S : x <= y

\* String.prototype.split('\n')
RECURSIVE split(_)
split(text) ==
    LET idx == {i \in 1..Len(text) : text[i] = "\n"}
    IN  IF idx = {} THEN <<text>>
        ELSE <<SubSeq(text, 1, Min(idx) - 1)>>
                 \o split(SubSeq(text, Min(idx) + 1, Len(text)))

\* Array.prototype.join('\n')
RECURSIVE join(_)
join(ls) ==
    IF ls = <<>> THEN <<>>
    ELSE IF Len(ls) = 1 THEN ls[1]
    ELSE ls[1] \o <<"\n">> \o join(Tail(ls))

RECURSIVE trimStart(_)
trimStart(s) ==
    IF s # <<>> /\ Head(s) \in WhiteSpace THEN trimStart(Tail(s)) ELSE s

RECURSIVE trimEnd(_)
trimEnd(s) ==
    IF s # <<>> /\ s[Len(s)] \in WhiteSpace THEN trimEnd(SubSeq(s, 1, Len(s) - 1)) ELSE s

\* String.prototype.trim
trim(s) == trimEnd(trimStart(s))

\* String.prototype.startsWith
startsWith(s, prefix) ==
    Len(s) >= Len(prefix) /\ SubSeq(s, 1, Len(prefix)) = prefix

\* String.prototype.slice(1)
slice1(s) == IF s = <<>> THEN <<>> ELSE Tail(s)

-----------------------------------------------------------------------------
(* Regular expressions of the shape  ^? \s*? (alt1|alt2|...)  with flag g or not *)

DEFAULT_COMMENT_PATTERN ==
    [anchored |-> TRUE, ws |-> TRUE, global |-> FALSE,
     alts |-> << <<"/", "/">>, <<"/", "*">>, <<"*">>, <<"#">>,
                 <<"<", "!", "-", "-">>, <<"-", "-">> >>]

\* 0-based end of the match that starts at 0-based position i, or -1
MatchEnd(re, s, i) ==
    IF re.anchored /\ i # 0 THEN -1
    ELSE
    LET nonWs == {j \in i..Len(s) : j = Len(s) \/ s[j + 1] \notin WhiteSpace}
        j == IF re.ws THEN Min(nonWs) ELSE i
        rest == SubSeq(s, j + 1, Len(s))
        hits == {k \in 1..Len(re.alts) : startsWith(rest, re.alts[k])}
    IN  IF hits = {} THEN -1 ELSE j + Len(re.alts[Min(hits)])

\* RegExp.prototype.test on a RegExp object whose lastIndex is li
test(re, s, li) ==
    IF ~re.global
    THEN [matched |-> \E i \in 0..Len(s) : MatchEnd(re, s, i) # -1, lastIndex |-> li]
    ELSE IF li > Len(s) THEN [matched |-> FALSE, lastIndex |-> 0]
    ELSE
    LET starts == {i \in li..Len(s) : MatchEnd(re, s, i) # -1}
    IN  IF starts = {} THEN [matched |-> FALSE, lastIndex |-> 0]
        ELSE [matched |-> TRUE, lastIndex |-> MatchEnd(re, s, Min(starts))]

-----------------------------------------------------------------------------
(* parser.ts *)

\* const { commentPattern = DEFAULT_COMMENT_PATTERN } = options
\* option: [kind |-> "omitted" | "null" | "regex", re |-> the caller's RegExp]
effectivePattern(option) ==
    IF option.kind = "omitted"
    THEN [kind |-> "regex", re |-> DEFAULT_COMMENT_PATTERN]
    ELSE option

\* commentPattern !== null && commentPattern.test(line)
isComment(pat, line, li) ==
    IF pat.kind = "null" THEN [matched |-> FALSE, lastIndex |-> li]
    ELSE test(pat.re, line, li)

\* type === 'tab' ? 1 : amount || 1
indentUnitOf(d) ==
    IF d.type = "tab" THEN 1 ELSE IF d.amount # 0 THEN d.amount ELSE 1

RECURSIVE leadingWhitespace(_)
leadingWhitespace(line) ==
    IF line # <<>> /\ Head(line) \in {"\t", " "}
    THEN <<Head(line)>> \o leadingWhitespace(Tail(line))
    ELSE <<>>

\* every leading character counted as one column, tabs included
computeIndentDepth_tabAsOne(line, indentUnit) ==
    Len(leadingWhitespace(line)) \div indentUnit

computeIndentDepth(line, indentUnit) ==
    LET lw == leadingWhitespace(line)
        charCount == SumSeq([i \in 1..Len(lw) |-> IF lw[i] = "\t" THEN indentUnit ELSE 1])
    IN  charCount \div indentUnit

\* blank lines recognised by line.length === 0 instead of trimmed.length === 0
RECURSIVE parseContentLoop_untrimmed(_, _, _, _, _, _)
parseContentLoop_untrimmed(rawLines, i, pat, indentUnit, acc, li) ==
    IF i > Len(rawLines) THEN [lines |-> acc, lastIndex |-> li]
    ELSE
    LET line == rawLines[i]
        t == isComment(pat, line, li)
    IN  IF Len(line) = 0
        THEN parseContentLoop_untrimmed(rawLines, i + 1, pat, indentUnit, acc, li)
        ELSE IF t.matched
        THEN parseContentLoop_untrimmed(rawLines, i + 1, pat, indentUnit, acc, t.lastIndex)
        ELSE parseContentLoop_untrimmed(rawLines, i + 1, pat, indentUnit,
                 Append(acc, [lineNumber |-> i,
                              depth |-> computeIndentDepth(line, indentUnit),
                              content |-> trim(line)]),
                 t.lastIndex)

\* lineNumber: i instead of i + 1 (the 0-based loop index)
RECURSIVE parseContentLoop_zeroBased(_, _, _, _, _, _)
parseContentLoop_zeroBased(rawLines, i, pat, indentUnit, acc, li) ==
    IF i > Len(rawLines) THEN [lines |-> acc, lastIndex |-> li]
    ELSE
    LET line == rawLines[i]
        t == isComment(pat, line, li)
    IN  IF Len(trim(line)) = 0
        THEN parseContentLoop_zeroBased(rawLines, i + 1, pat, indentUnit, acc, li)
        ELSE IF t.matched
        THEN parseContentLoop_zeroBased(rawLines, i + 1, pat, indentUnit, acc, t.lastIndex)
        ELSE parseContentLoop_zeroBased(rawLines, i + 1, pat, indentUnit,
                 Append(acc, [lineNumber |-> i - 1,
                              depth |-> computeIndentDepth(line, indentUnit),
                              content |-> trim(line)]),
                 t.lastIndex)

RECURSIVE parseContentLoop(_, _, _, _, _, _)
parseContentLoop(rawLines, i, pat, indentUnit, acc, li) ==
    IF i > Len(rawLines) THEN [lines |-> acc, lastIndex |-> li]
    ELSE
    LET line == rawLines[i]
        trimmed == trim(line)
    IN  IF Len(trimmed) = 0
        THEN parseContentLoop(rawLines, i + 1, pat, indentUnit, acc, li)
        ELSE
        LET t == isComment(pat, line, li)
        IN  IF t.matched
            THEN parseContentLoop(rawLines, i + 1, pat, indentUnit, acc, t.lastIndex)
            ELSE parseContentLoop(rawLines, i + 1, pat, indentUnit,
                     Append(acc, [lineNumber |-> i,
                                  depth |-> computeIndentDepth(line, indentUnit),
                                  content |-> trimmed]),
                     t.lastIndex)

\* d: what detectIndent(text) returned; li: lastIndex of the caller's RegExp
parseContent(text, option, d, li) ==
    LET p == parseContentLoop(split(text), 1, effectivePattern(option),
                              indentUnitOf(d), <<>>, li)
    IN  [lines |-> p.lines, indentUnit |-> indentUnitOf(d), lastIndex |-> p.lastIndex]

DIFF_HEADER_PREFIXES ==
    { <<"d", "i", "f", "f", " ">>, <<"i", "n", "d", "e", "x", " ">>,
      <<"+", "+", "+">>, <<"-", "-", "-">>, <<"@", "@">> }

\* the file-name prefixes +++ and --- left out
isDiffHeader_noFileNames(line) ==
    \E prefix \in { <<"d", "i", "f", "f", " ">>, <<"i", "n", "d", "e", "x", " ">>,
                    <<"@", "@">> } : startsWith(line, prefix)

isDiffHeader(line) == \E prefix \in DIFF_HEADER_PREFIXES : startsWith(line, prefix)

shouldIncludeLine(line, include) ==
    LET isAddition == startsWith(line, <<"+">>)
        isDeletion == startsWith(line, <<"-">>)
    IN  IF ~isAddition /\ ~isDeletion THEN FALSE
        ELSE IF include = "additions" THEN isAddition
        ELSE IF include = "deletions" THEN isDeletion
        ELSE TRUE

\* the filter on +++ and --- left out
extractDiffCodeLines_keepFileNames(rawLines) ==
    LET marked(line) == startsWith(line, <<"+">>) \/ startsWith(line, <<"-">>)
        kept == SelectSeq(rawLines, marked)
    IN  [i \in 1..Len(kept) |-> slice1(kept[i])]

extractDiffCodeLines(rawLines) ==
    LET marked(line) == startsWith(line, <<"+">>) \/ startsWith(line, <<"-">>)
        notFile(line) == ~startsWith(line, <<"+", "+", "+">>)
                            /\ ~startsWith(line, <<"-", "-", "-">>)
        kept == SelectSeq(SelectSeq(rawLines, marked), notFile)
    IN  [i \in 1..Len(kept) |-> slice1(kept[i])]

\* lineNumber++ placed after the blank and comment filters
RECURSIVE parseDiffLoop_countAfter(_, _, _, _, _, _, _, _)
parseDiffLoop_countAfter(rawLines, i, include, pat, indentUnit, acc, lineNumber, li) ==
    IF i > Len(rawLines) THEN [lines |-> acc, lastIndex |-> li]
    ELSE
    LET line == rawLines[i]
        text == slice1(line)
        t == isComment(pat, text, li)
    IN  IF isDiffHeader(line) \/ ~shouldIncludeLine(line, include)
            \/ Len(trim(text)) = 0
        THEN parseDiffLoop_countAfter(rawLines, i + 1, include, pat, indentUnit, acc,
                                      lineNumber, li)
        ELSE IF t.matched
        THEN parseDiffLoop_countAfter(rawLines, i + 1, include, pat, indentUnit, acc,
                                      lineNumber, t.lastIndex)
        ELSE parseDiffLoop_countAfter(rawLines, i + 1, include, pat, indentUnit,
                 Append(acc, [lineNumber |-> lineNumber + 1,
                              depth |-> computeIndentDepth(text, indentUnit),
                              content |-> trim(text)]),
                 lineNumber + 1, t.lastIndex)

RECURSIVE parseDiffLoop(_, _, _, _, _, _, _, _)
parseDiffLoop(rawLines, i, include, pat, indentUnit, acc, lineNumber, li) ==
    IF i > Len(rawLines) THEN [lines |-> acc, lastIndex |-> li]
    ELSE
    LET line == rawLines[i]
    IN  IF isDiffHeader(line) \/ ~shouldIncludeLine(line, include)
        THEN parseDiffLoop(rawLines, i + 1, include, pat, indentUnit, acc, lineNumber, li)
        ELSE
        LET text == slice1(line)
            trimmed == trim(text)
            n == lineNumber + 1
        IN  IF Len(trimmed) = 0
            THEN parseDiffLoop(rawLines, i + 1, include, pat, indentUnit, acc, n, li)
            ELSE
            LET t == isComment(pat, text, li)
            IN  IF t.matched
                THEN parseDiffLoop(rawLines, i + 1, include, pat, indentUnit, acc, n,
                                   t.lastIndex)
                ELSE parseDiffLoop(rawLines, i + 1, include, pat, indentUnit,
                         Append(acc, [lineNumber |-> n,
                                      depth |-> computeIndentDepth(text, indentUnit),
                                      content |-> trimmed]),
                         n, t.lastIndex)

\* the text parseDiff hands to detectIndent
codeContent(diff) == join(extractDiffCodeLines(split(diff)))

parseDiff(diff, include, option, d, li) ==
    LET p == parseDiffLoop(split(diff), 1, include, effectivePattern(option),
                           indentUnitOf(d), <<>>, 0, li)
    IN  [lines |-> p.lines, indentUnit |-> indentUnitOf(d), lastIndex |-> p.lastIndex]

\* const { include = 'additions' } = options
includeOf(opts) == IF opts.include = "omitted" THEN "additions" ELSE opts.include

\* What detect-indent (an external package) may return for a text: nothing
\* detected, or a unit of the kind of white space that leads some line.  The
\* amount reported with type 'tab' is never read, so one value stands for all.
detectIndentOutcomes(text) ==
    LET ls == split(text)
        leads(c) == \E i \in 1..Len(ls) : ls[i] # <<>> /\ ls[i][1] = c
    IN  {[amount |-> 0, type |-> "undefined"]}
        \cup {[amount |-> k, type |-> "space"] : k \in {j \in 1..MaxAmount : leads(" ")}}
        \cup {[amount |-> k, type |-> "tab"] : k \in {j \in {1} : leads("\t")}}

-----------------------------------------------------------------------------
(* Inputs *)

ContentLines ==
    { <<>>,
      <<" ", " ">>,
      <<"a">>,
      <<" ", " ", "b">>,
      <<"\t", "b">>,
      <<" ", "\t", "b", " ", "c">>,
      <<"#", "c">>,
      <<" ", " ", "/", "/", "c">> }

DiffLines ==
    { <<"d", "i", "f", "f", " ", "a">>,
      <<"i", "n", "d", "e", "x", " ", "1">>,
      <<"-", "-", "-", " ", "a">>,
      <<"+", "+", "+", " ", "b">>,
      <<"@", "@", " ", "-", "1">>,
      <<" ">>,
      <<" ", "a">>,
      <<"+", "a">>,
      <<"+", " ", " ", "b">>,
      <<"+", " ">>,
      <<"+", "#", "c">>,
      <<"-", "\t", "b">>,
      <<"-", "#", "c">> }

Texts(pool) == {join(ls) : ls \in UNION {[1..n -> pool] : n \in 0..MaxLines}}

SlashesPattern ==
    [anchored |-> TRUE, ws |-> TRUE, global |-> FALSE, alts |-> << <<"/", "/">> >>]
HashGlobalPattern ==
    [anchored |-> FALSE, ws |-> FALSE, global |-> TRUE, alts |-> << <<"#">> >>]

CommentPatterns ==
    { [kind |-> "omitted", re |-> DEFAULT_COMMENT_PATTERN],
      [kind |-> "null", re |-> DEFAULT_COMMENT_PATTERN],
      [kind |-> "regex", re |-> SlashesPattern],
      [kind |-> "regex", re |-> HashGlobalPattern] }

NoThresholds == [given |-> FALSE, fields |-> [f \in {} |-> Zero]]
Given(fields) == [given |-> TRUE, fields |-> fields]

\* verbose, includeLines and thresholds of the calls; buildResult is run on
\* their full product below
CallResultOptions ==
    { [verbose |-> FALSE, includeLines |-> FALSE, thresholds |-> NoThresholds],
      [verbose |-> TRUE, includeLines |-> FALSE,
       thresholds |-> Given([medium |-> Zero])],
      [verbose |-> FALSE, includeLines |-> TRUE,
       thresholds |-> Given([medium |-> Rat(1, 2), high |-> Num(1)])],
      [verbose |-> TRUE, includeLines |-> TRUE, thresholds |-> NoThresholds] }

BuildThresholds ==
    { NoThresholds,
      Given([medium |-> Zero]),
      Given([medium |-> Rat(1, 2), high |-> Num(1)]),
      Given([f \in {} |-> Zero]),
      Given([medium |-> Num(1)]),
      Given([high |-> Num(2)]),
      Given([medium |-> Num(3), high |-> Num(1)]) }

ThresholdValues == {Zero, Rat(1, 2), Num(1), Num(4), Num(10)}
Scores == {Rat(n, 10) : n \in 0..MaxScoreTenths}

Flags == [verbose : BOOLEAN, includeLines : BOOLEAN]

NoOptions ==
    [commentPattern |-> [kind |-> "omitted", re |-> DEFAULT_COMMENT_PATTERN],
     thresholds |-> NoThresholds, verbose |-> FALSE, includeLines |-> FALSE,
     include |-> "omitted"]
NoDetected == [amount |-> 0, type |-> "undefined"]
NoAssessment == [level |-> "none", reason |-> <<>>]

-----------------------------------------------------------------------------
(* analyze.ts, analyze-diff.ts: two calls with the same arguments *)

Init ==
    /\ mode \in {"content", "diff"}
    /\ content \in Texts(IF mode = "content" THEN ContentLines ELSE DiffLines)
    /\ detected \in detectIndentOutcomes(IF mode = "content" THEN content
                                         ELSE codeContent(content))
    /\ \E c \in CommentPatterns, r \in CallResultOptions,
          i \in (IF mode = "content" THEN {"omitted"}
                 ELSE {"omitted", "additions", "deletions", "both"}) :
          options = [commentPattern |-> c, thresholds |-> r.thresholds,
                     verbose |-> r.verbose, includeLines |-> r.includeLines,
                     include |-> i]
    /\ detectArg = <<>>
    /\ lastIndex = 0
    /\ lines = <<>>
    /\ results = <<>>
    /\ score = Zero
    /\ thresholds = DEFAULT_THRESHOLDS
    /\ assessment = NoAssessment

buildOptions(opts) ==
    [verbose |-> opts.verbose, includeLines |-> opts.includeLines,
     userThresholds |-> opts.thresholds]

analyzeComplexity ==
    /\ mode = "content"
    /\ Len(results) < MaxCalls
    /\ LET p == parseContent(content, options.commentPattern, detected, lastIndex)
       IN  /\ lines' = p.lines
           /\ lastIndex' = p.lastIndex
           /\ results' = Append(results, buildResult(p.lines, buildOptions(options)))
    /\ detectArg' = content
    /\ UNCHANGED <<mode, content, options, detected, score, thresholds, assessment>>

analyzeDiffComplexity ==
    /\ mode = "diff"
    /\ Len(results) < MaxCalls
    /\ LET p == parseDiff(content, includeOf(options), options.commentPattern,
                          detected, lastIndex)
       IN  /\ lines' = p.lines
           /\ lastIndex' = p.lastIndex
           /\ results' = Append(results, buildResult(p.lines, buildOptions(options)))
    /\ detectArg' = codeContent(content)
    /\ UNCHANGED <<mode, content, options, detected, score, thresholds, assessment>>

Next == analyzeComplexity \/ analyzeDiffComplexity

Spec == Init /\ [][Next]_vars

-----------------------------------------------------------------------------
(* buildResult over every short list of counted lines *)

CountedLines ==
    UNION {[1..n -> [lineNumber : {1}, depth : 0..MaxDepth, content : {<<"a">>}]]
              : n \in 0..MaxDepths}

InitResult ==
    /\ mode = "lines"
    /\ content = <<>>
    /\ \E f \in Flags, t \in BuildThresholds :
          options = [NoOptions EXCEPT !.verbose = f.verbose,
                                      !.includeLines = f.includeLines,
                                      !.thresholds = t]
    /\ detected = NoDetected
    /\ detectArg = <<>>
    /\ lastIndex = 0
    /\ lines \in CountedLines
    /\ results = <<>>
    /\ score = Zero
    /\ thresholds = DEFAULT_THRESHOLDS
    /\ assessment = NoAssessment

BuildResult ==
    /\ mode = "lines"
    /\ results = <<>>
    /\ results' = <<buildResult(lines, buildOptions(options))>>
    /\ UNCHANGED <<mode, content, options, detected, detectArg, lastIndex, lines,
                   score, thresholds, assessment>>

NextResult == BuildResult

SpecResult == InitResult /\ [][NextResult]_vars

-----------------------------------------------------------------------------
(* assessComplexity over scores in tenths and every pair of thresholds *)

InitAssess ==
    /\ mode = "assess"
    /\ content = <<>>
    /\ options = NoOptions
    /\ detected = NoDetected
    /\ detectArg = <<>>
    /\ lastIndex = 0
    /\ lines = <<>>
    /\ results = <<>>
    /\ score \in Scores
    /\ thresholds \in [medium : ThresholdValues, high : ThresholdValues]
    /\ assessment = NoAssessment

AssessComplexity ==
    /\ mode = "assess"
    /\ assessment = NoAssessment
    /\ assessment' = assessComplexity(score, thresholds)
    /\ UNCHANGED <<mode, content, options, detected, detectArg, lastIndex, lines,
                   results, score, thresholds>>

NextAssess == AssessComplexity

SpecAssess == InitAssess /\ [][NextAssess]_vars

-----------------------------------------------------------------------------
(* Properties *)

AtLeast(a, b) == a[1] * b[2] >= b[1] * a[2]
Below(a, b) == a[1] * b[2] < b[1] * a[2]

\* C1: assessComplexity returns 'high' exactly when score >= high, 'medium'
\* exactly when score < high and score >= medium, and 'low' otherwise; with
\* thresholds {medium: 4, high: 10}, 3.9 is low, 4.0 medium and 10.0 high.
AssessInclusiveBoundaries ==
    (mode = "assess" /\ assessment.level # "none") =>
        /\ assessment.level = "high" <=> AtLeast(score, thresholds.high)
        /\ assessment.level = "medium" <=>
              (Below(score, thresholds.high) /\ AtLeast(score, thresholds.medium))
        /\ assessment.level = "low" <=>
              (Below(score, thresholds.high) /\ Below(score, thresholds.medium))
        /\ (thresholds = [medium |-> <<4, 1>>, high |-> <<10, 1>>]) =>
              /\ score = <<39, 10>> => assessment.level = "low"
              /\ score = <<4, 1>> => assessment.level = "medium"
              /\ score = <<10, 1>> => assessment.level = "high"

AssessAtMediumBoundary ==
    /\ mode = "assess"
    /\ thresholds = [medium |-> <<4, 1>>, high |-> <<10, 1>>]
    /\ score = <<4, 1>>
    /\ assessment.level = "medium"

DepthsOfLines == [i \in 1..Len(lines) |-> lines[i].depth]
SumOver(f) == SumSeq([i \in 1..Len(lines) |-> f[i]])
SquaredDepths == [i \in 1..Len(lines) |-> lines[i].depth * lines[i].depth]

\* C2: the returned score is the sum of the squared depths of the counted lines
\* divided by their number; it is 0 when every depth is 0 and when no line is
\* counted.
ScoreIsMeanOfSquares ==
    (mode = "lines" /\ results # <<>>) =>
        LET r == results[1]
        IN  /\ Len(lines) > 0 =>
                  r.score[1] * Len(lines) = SumOver(SquaredDepths) * r.score[2]
            /\ (\A i \in 1..Len(lines) : lines[i].depth = 0) => r.score = <<0, 1>>
            /\ Len(lines) = 0 => r.score = <<0, 1>>

ScoreDiffersFromVariance ==
    /\ mode = "lines"
    /\ results # <<>>
    /\ "variance" \in DOMAIN results[1]
    /\ results[1].score # results[1].variance
    /\ results[1].score[1] * Len(lines) = SumOver(SquaredDepths) * results[1].score[2]

BaseFields == {"score", "level", "reason"}
VerboseFields == {"lineCount", "max", "variance", "mean", "stdDev", "median",
                  "sum", "depthHistogram"}

\* C4: the result has exactly score, level, reason when verbose and
\* includeLines are both false; the verbose fields in addition when verbose is
\* true; the verbose fields and lines when includeLines is true, whatever verbose
\* is; score, level and reason are the same in every shape.
ResultShape ==
    (mode = "lines" /\ results # <<>>) =>
        LET r == results[1]
        IN  /\ (~options.verbose /\ ~options.includeLines) => DOMAIN r = BaseFields
            /\ (options.verbose /\ ~options.includeLines) =>
                  DOMAIN r = BaseFields \cup VerboseFields
            /\ options.includeLines =>
                  DOMAIN r = BaseFields \cup VerboseFields \cup {"lines"}
            /\ \A f \in Flags :
                  LET o == buildResult(lines, [verbose |-> f.verbose,
                                               includeLines |-> f.includeLines,
                                               userThresholds |-> options.thresholds])
                  IN  \A k \in BaseFields : o[k] = r[k]

LinesWithoutVerbose ==
    /\ mode = "lines"
    /\ results # <<>>
    /\ options.includeLines
    /\ ~options.verbose
    /\ Len(lines) > 0
    /\ "variance" \in DOMAIN results[1]
    /\ "lines" \in DOMAIN results[1]

\* C10: each of medium and high that the caller does not give takes its default
\* (4 and 10), each given one the caller's value, and the level is computed
\* from the thresholds so resolved.
ThresholdsResolved ==
    (mode = "lines" /\ results # <<>>) =>
        LET u == options.thresholds
            r == results[1]
            medium == IF u.given /\ "medium" \in DOMAIN u.fields
                      THEN u.fields.medium ELSE <<4, 1>>
            high == IF u.given /\ "high" \in DOMAIN u.fields
                    THEN u.fields.high ELSE <<10, 1>>
        IN  /\ r.level = IF AtLeast(r.score, high) THEN "high"
                         ELSE IF AtLeast(r.score, medium) THEN "medium"
                         ELSE "low"
            /\ r.level = "high" => r.reason[4] = high
            /\ r.level = "medium" => r.reason[4] = medium

OnlyMediumGiven ==
    /\ mode = "lines"
    /\ results # <<>>
    /\ options.thresholds.given
    /\ DOMAIN options.thresholds.fields = {"medium"}
    /\ options.thresholds.fields.medium = <<1, 1>>
    /\ results[1].level = "medium"
    /\ Below(results[1].score, <<4, 1>>)

\* the text consists of white space and newlines only
BlankInput == \A i \in 1..Len(content) : content[i] \in {" ", "\t", "\n"}

ZeroStatistics(r) ==
    "lineCount" \in DOMAIN r =>
        /\ r.lineCount = 0 /\ r.sum = 0 /\ r.max = 0
        /\ r.mean = <<0, 1>> /\ r.variance = <<0, 1>> /\ r.median = <<0, 1>>
        /\ r.stdDev = Sqrt(<<0, 1>>)

ResolvedMedium ==
    IF options.thresholds.given /\ "medium" \in DOMAIN options.thresholds.fields
    THEN options.thresholds.fields.medium ELSE <<4, 1>>
ResolvedHigh ==
    IF options.thresholds.given /\ "high" \in DOMAIN options.thresholds.fields
    THEN options.thresholds.fields.high ELSE <<10, 1>>

\* C5 as stated: for empty or white-space-only input and every choice of
\* options, caller-supplied thresholds included, score = 0, level = 'low',
\* lineCount = 0 and every statistic is 0.
BlankInputIsLow ==
    (mode \in {"content", "diff"} /\ BlankInput) =>
        \A k \in 1..Len(results) :
            /\ results[k].score = <<0, 1>>
            /\ results[k].level = "low"
            /\ ZeroStatistics(results[k])

\* C5 amended: for empty or white-space-only input and every choice of options,
\* score = 0, lineCount = 0 and every statistic is 0; level is 'low' when both
\* resolved thresholds are above 0, 'high' when the resolved high threshold is
\* not above 0, and otherwise 'medium'.
BlankInputIsZero ==
    (mode \in {"content", "diff"} /\ BlankInput) =>
        \A k \in 1..Len(results) :
            /\ results[k].score = <<0, 1>>
            /\ ZeroStatistics(results[k])
            /\ results[k].level =
                  IF AtLeast(<<0, 1>>, ResolvedHigh) THEN "high"
                  ELSE IF AtLeast(<<0, 1>>, ResolvedMedium) THEN "medium"
                  ELSE "low"

WhiteSpaceOnlyAnalysed ==
    /\ mode \in {"content", "diff"}
    /\ BlankInput
    /\ content # <<>>
    /\ results # <<>>
    /\ options.thresholds.given
    /\ "lineCount" \in DOMAIN results[1]
    /\ results[1].level = "low"

\* C6: two successive calls with identical arguments, the same commentPattern
\* object included, return identical results.
IdenticalResults ==
    Len(results) = 2 => results[1] = results[2]

\* the lines of the text, outside the model's split
RECURSIVE RawLines(_)
RawLines(text) ==
    IF \A i \in 1..Len(text) : text[i] # "\n" THEN <<text>>
    ELSE LET n == CHOOSE i \in 1..Len(text) :
                      text[i] = "\n" /\ \A j \in 1..(i - 1) : text[j] # "\n"
         IN  <<SubSeq(text, 1, n - 1)>> \o RawLines(SubSeq(text, n + 1, Len(text)))

Begins(line, prefix) ==
    Len(line) >= Len(prefix) /\ \A i \in 1..Len(prefix) : line[i] = prefix[i]

RECURSIVE Strip(_)
Strip(s) ==
    IF s = <<>> THEN s
    ELSE IF s[1] \in {" ", "\t"} THEN Strip(Tail(s))
    ELSE IF s[Len(s)] \in {" ", "\t"} THEN Strip(SubSeq(s, 1, Len(s) - 1))
    ELSE s

HeaderLine(line) ==
    \/ Begins(line, <<"d", "i", "f", "f", " ">>)
    \/ Begins(line, <<"i", "n", "d", "e", "x", " ">>)
    \/ Begins(line, <<"+", "+", "+">>)
    \/ Begins(line, <<"-", "-", "-">>)
    \/ Begins(line, <<"@", "@">>)

Marked(line, markers) == line # <<>> /\ line[1] \in markers

MarkersOf(include) ==
    IF include = "deletions" THEN {"-"}
    ELSE IF include = "both" THEN {"+", "-"}
    ELSE {"+"}

\* lineCount of a diff call with this include and a commentPattern object
\* whose lastIndex is 0
CountWith(include) ==
    Len(parseDiff(content, include, options.commentPattern, detected, 0).lines)

\* C7: include decides which hunk lines are counted ('additions', also when
\* omitted, only '+' lines; 'deletions' only '-' lines; 'both' both), and for
\* every diff and comment pattern lineCount with 'both' is lineCount with
\* 'additions' plus lineCount with 'deletions'.
IncludeSelectsAndAdds ==
    (mode = "diff" /\ Len(results) = 1) =>
        LET raw == RawLines(content)
            from == {i \in 1..Len(raw) : Marked(raw[i], MarkersOf(options.include))}
        IN  /\ Len(lines) <= Cardinality(from)
            /\ \A j \in 1..Len(lines) :
                  \E i \in from : lines[j].content = Strip(Tail(raw[i]))
            /\ options.include = "both" =>
                  Len(lines) = CountWith("additions") + CountWith("deletions")

\* C8: no line that begins with 'diff ', 'index ', '+++', '---' or '@@', and no
\* line that begins with neither '+' nor '-', produces a counted line, whatever
\* include is.
HeadersAndContextSkipped ==
    (mode = "diff" /\ results # <<>>) =>
        LET raw == RawLines(content)
            eligible == {i \in 1..Len(raw) :
                            ~HeaderLine(raw[i]) /\ Marked(raw[i], {"+", "-"})}
        IN  /\ Len(lines) <= Cardinality(eligible)
            /\ \A j \in 1..Len(lines) :
                  \E i \in eligible : lines[j].content = Strip(Tail(raw[i]))

HeaderBesideCountedLine ==
    /\ mode = "diff"
    /\ results # <<>>
    /\ lines # <<>>
    /\ \E i \in 1..Len(RawLines(content)) : HeaderLine(RawLines(content)[i])
    /\ \E i \in 1..Len(RawLines(content)) : ~Marked(RawLines(content)[i], {"+", "-"})

\* the pattern matches somewhere in the line
Matches(re, s) == \E i \in 0..Len(s) : MatchEnd(re, s, i) # -1

ExcludedAsComment(s) ==
    IF options.commentPattern.kind = "null" THEN FALSE
    ELSE IF options.commentPattern.kind = "omitted"
    THEN Matches(DEFAULT_COMMENT_PATTERN, s)
    ELSE Matches(options.commentPattern.re, s)

\* the lines that reach the blank and comment filters, in order
Candidates ==
    LET raw == RawLines(content)
        keep(line) == ~HeaderLine(line) /\ Marked(line, MarkersOf(options.include))
        gated == SelectSeq(raw, keep)
    IN  IF mode = "content" THEN raw
        ELSE [i \in 1..Len(gated) |-> Tail(gated[i])]

\* C9: a non-blank line is excluded from the counted lines exactly when the
\* effective comment pattern (the default when omitted, none when null, the
\* caller's alone when given) matches the untrimmed line.
CommentFiltering ==
    (mode \in {"content", "diff"} /\ results # <<>>) =>
        {lines[j].lineNumber : j \in 1..Len(lines)} =
            {i \in 1..Len(Candidates) :
                Strip(Candidates[i]) # <<>> /\ ~ExcludedAsComment(Candidates[i])}

RECURSIVE SumOfCounts(_, _)
SumOfCounts(h, keys) ==
    IF keys = {} THEN 0
    ELSE LET d == CHOOSE x \in keys : TRUE
         IN  h[d] + SumOfCounts(h, keys \ {d})

\* C11: in every verbose or line-detail result depthHistogram maps each depth
\* to the number of counted lines at that depth: only depths that occur are
\* keys, every count is at least 1, the counts sum to lineCount, and lineCount
\* is the number of entries of lines when lines is present.
HistogramCounts ==
    (mode = "lines" /\ results # <<>> /\ "depthHistogram" \in DOMAIN results[1]) =>
        LET r == results[1]
            h == r.depthHistogram
        IN  /\ DOMAIN h = {lines[i].depth : i \in 1..Len(lines)}
            /\ \A d \in DOMAIN h :
                  /\ h[d] >= 1
                  /\ h[d] = Cardinality({i \in 1..Len(lines) : lines[i].depth = d})
            /\ SumOfCounts(h, DOMAIN h) = r.lineCount
            /\ "lines" \in DOMAIN r => r.lineCount = Len(r.lines)

HistogramWithRepeatedDepth ==
    /\ mode = "lines"
    /\ results # <<>>
    /\ "lines" \in DOMAIN results[1]
    /\ Cardinality(DOMAIN results[1].depthHistogram) = 2
    /\ \E d \in DOMAIN results[1].depthHistogram : results[1].depthHistogram[d] = 2
    /\ results[1].lineCount = 3

ScoreBetweenInverted ==
    /\ mode = "assess"
    /\ assessment.level # "none"
    /\ Below(thresholds.high, thresholds.medium)
    /\ AtLeast(score, thresholds.high)
    /\ Below(score, thresholds.medium)

\* C12 as stated: with medium > high, for every score s with high <= s < medium
\* assessComplexity does not return level 'high'.
HighUnreachableBetween ==
    ScoreBetweenInverted => assessment.level # "high"

\* C12 amended: with medium > high it is 'medium' that is unreachable: for every
\* score s with high <= s < medium assessComplexity returns 'high', and no score
\* yields 'medium'.
MediumUnreachableWhenInverted ==
    (mode = "assess" /\ assessment.level # "none"
        /\ Below(thresholds.high, thresholds.medium)) =>
        /\ assessment.level # "medium"
        /\ (AtLeast(score, thresholds.high) /\ Below(score, thresholds.medium)) =>
              assessment.level = "high"

HighBetweenInvertedThresholds ==
    /\ ScoreBetweenInverted
    /\ thresholds = [medium |-> <<4, 1>>, high |-> <<1, 1>>]
    /\ score = <<2, 1>>
    /\ assessment.level = "high"

\* C13: in analyzeDiffComplexity the line number of a counted line is its rank
\* among the lines that pass the header and include gate, counted before blank
\* and comment filtering: the k-th such line, if counted, has number k; header
\* and context lines do not advance the counter; the numbers of the counted
\* lines are at least 1 and strictly increasing.
DiffLineNumbers ==
    (mode = "diff" /\ results # <<>>) =>
        /\ \A j \in 1..Len(lines) :
              /\ lines[j].lineNumber >= 1
              /\ lines[j].lineNumber <= Len(Candidates)
              /\ lines[j].content = Strip(Candidates[lines[j].lineNumber])
        /\ \A j \in 1..(Len(lines) - 1) :
              lines[j].lineNumber < lines[j + 1].lineNumber

GapInDiffLineNumbers ==
    /\ mode = "diff"
    /\ results # <<>>
    /\ Len(lines) = 1
    /\ lines[1].lineNumber = 2
    /\ Strip(Candidates[1]) = <<>>

\* C14: in analyzeComplexity every counted line carries the 1-based position of
\* its physical line in the text split on newline, its content is that line
\* trimmed and is not empty, its depth is an integer >= 0, and the counted lines
\* are in the original order with strictly increasing line numbers.
ContentLineNumbers ==
    (mode = "content" /\ results # <<>>) =>
        LET raw == RawLines(content)
        IN  /\ \A j \in 1..Len(lines) :
                  /\ lines[j].lineNumber \in 1..Len(raw)
                  /\ lines[j].content = Strip(raw[lines[j].lineNumber])
                  /\ lines[j].content # <<>>
                  /\ lines[j].depth \in Nat
            /\ \A j \in 1..(Len(lines) - 1) :
                  lines[j].lineNumber < lines[j + 1].lineNumber

SecondLineCountedAlone ==
    /\ mode = "content"
    /\ results # <<>>
    /\ Len(lines) = 1
    /\ lines[1].lineNumber = 2
    /\ lines[1].depth > 0
    /\ RawLines(content)[1] # <<>>

\* the line a counted line was read from (for a diff, without its marker)
SourceOf(l) ==
    IF mode = "content" THEN RawLines(content)[l.lineNumber]
    ELSE Candidates[l.lineNumber]

\* length of the leading run of spaces and tabs
LeadLength(s) ==
    CHOOSE k \in 0..Len(s) :
        /\ \A i \in 1..k : s[i] \in {" ", "\t"}
        /\ k < Len(s) => s[k + 1] \notin {" ", "\t"}

LeadCount(s, c) == Cardinality({i \in 1..LeadLength(s) : s[i] = c})

\* 1 for tabs, otherwise the detected amount, 1 when that is 0
UnitOfDetected ==
    IF detected.type = "tab" THEN 1
    ELSE IF detected.amount >= 1 THEN detected.amount
    ELSE 1

\* C15: only the leading run of spaces and tabs is scanned; a tab counts u
\* columns and a space 1, and depth = floor(columns / u), so k tabs and k * u
\* spaces both give depth k; u is 1 when the detected type is tab, otherwise the
\* detected amount with a floor of 1, and is never 0.
IndentDepths ==
    (mode \in {"content", "diff"} /\ results # <<>>) =>
        /\ indentUnitOf(detected) = UnitOfDetected
        /\ indentUnitOf(detected) >= 1
        /\ \A j \in 1..Len(lines) :
              LET s == SourceOf(lines[j])
                  tabs == LeadCount(s, "\t")
                  spaces == LeadCount(s, " ")
                  u == UnitOfDetected
              IN  /\ lines[j].depth = (tabs * u + spaces) \div u
                  /\ spaces = 0 => lines[j].depth = tabs
                  /\ (tabs = 0 /\ spaces % u = 0) => lines[j].depth * u = spaces

MixedIndentFloored ==
    /\ mode = "content"
    /\ results # <<>>
    /\ detected = [amount |-> 2, type |-> "space"]
    /\ Len(lines) = 2
    /\ SourceOf(lines[1]) = <<" ", "\t", "b", " ", "c">>
    /\ lines[1].depth = 1
    /\ SourceOf(lines[2]) = <<"\t", "b">>
    /\ lines[2].depth = 1

\* the '+' / '-' lines with these markers, file-name lines left out, markers removed
CodeLinesMarked(markers) ==
    LET keep(line) == /\ Marked(line, markers)
                      /\ ~Begins(line, <<"+", "+", "+">>)
                      /\ ~Begins(line, <<"-", "-", "-">>)
        kept == SelectSeq(RawLines(content), keep)
    IN  [i \in 1..Len(kept) |-> Tail(kept[i])]

\* the text handed to the detector is these lines joined by newlines
DetectorReads(ls) ==
    IF ls = <<>> THEN detectArg = <<>> ELSE RawLines(detectArg) = ls

\* C16 as stated: in analyzeDiffComplexity the detector is run over only the
\* '+' / '-' lines selected by the include setting, markers removed, never over
\* the raw diff; a line not selected by include contributes nothing to it.
DetectorReadsIncludedOnly ==
    (mode = "diff" /\ results # <<>>) =>
        DetectorReads(CodeLinesMarked(MarkersOf(options.include)))

\* C16 amended: the detector is run over all '+' and '-' lines of the diff other
\* than those that begin with '+++' or '---', markers removed, whatever include
\* is, and never over the raw diff.
DetectorReadsAllChangedLines ==
    (mode = "diff" /\ results # <<>>) =>
        DetectorReads(CodeLinesMarked({"+", "-"}))

DeletionReachesDetector ==
    /\ mode = "diff"
    /\ results # <<>>
    /\ options.include = "additions"
    /\ RawLines(content) = << <<"+", " ", " ", "b">>, <<"-", "\t", "b">> >>
    /\ RawLines(detectArg) = << <<" ", " ", "b">>, <<"\t", "b">> >>
    /\ Len(lines) = 1

====
